---- MODULE Spec2Model ----
(***************************************************************************)
(* Model of the command-tracking core of acontext-cli (main.go): the       *)
(* lifecycle hooks on rootCmd, main's top-level error handler, the         *)
(* dispatcher trackCommandAndWait with its bounded wait, and the pure      *)
(* helpers buildCommandPath, collectFlags and filterArgs.                  *)
(*                                                                         *)
(* Strings are sequences of one-character strings, so that joining with    *)
(* "." and counting the segments of the result are computed, not assumed.  *)
(***************************************************************************)
EXTENDS Integers, Sequences, FiniteSets, TLC

\* ------------------------------------------------------------------ bounds

\* Largest number of command nodes in a tree drawn for the pure-function runs.
MaxNodes == 4
\* Largest number of time units the command's own action may take.
MaxRunTime == 2
\* Largest integer a flag value takes in the pure-function runs.
MaxIntFlag == 11
\* Longest argument list drawn for the pure-function runs.
MaxArgs == 3
\* Largest number of time units that pass before the pre-run hook runs.
MaxStartDelay == 1

\* --------------------------------------------------------------- constants

\* time.After(5 * time.Second): the ceiling of the bounded wait.
Ceiling == 5

\* ----------------------------------------------------------------- strings

acontext == <<"a","c","o","n","t","e","x","t">>
sVersion == <<"v","e","r","s","i","o","n">>
sCreate  == <<"c","r","e","a","t","e">>
sDocker  == <<"d","o","c","k","e","r">>
sUp      == <<"u","p">>
sRoot    == <<"r","o","o","t">>
sDot     == <<".">>
sHelpLong  == <<"-","-","h","e","l","p">>
sHelpShort == <<"-","h">>
sHelpWord  == <<"h","e","l","p">>
sMyapp   == <<"m","y","a","p","p">>
sTrue    == <<"t","r","u","e">>
sFalse   == <<"f","a","l","s","e">>
sPython  == <<"p","y">>
sTs      == <<"t","s">>

\* The development sentinel and a release version (var version, set at build).
Dev == "dev"
Release == "v0.1.0"
Versions == {Dev, Release}

\* strings.Join(parts, sep)
RECURSIVE Join(_, _)
Join(parts, sep) ==
    IF Len(parts) = 0 THEN <<>>
    ELSE IF Len(parts) = 1 THEN parts[1]
    ELSE parts[1] \o sep \o Join(Tail(parts), sep)

\* The segments of s between occurrences of the character c (strings.Split).
RECURSIVE SplitAcc(_, _, _)
SplitAcc(s, c, cur) ==
    IF Len(s) = 0 THEN <<cur>>
    ELSE IF Head(s) = c THEN <<cur>> \o SplitAcc(Tail(s), c, <<>>)
    ELSE SplitAcc(Tail(s), c, Append(cur, Head(s)))

Split(s, c) == SplitAcc(s, c, <<>>)

\* ----------------------------------------------------------- command tree

\* Parent() of the root command is nil.
NoParent == -1
\* cmd.Context() holds no start_time value.
NoTime == -1

\* The tree init() builds: rootCmd with versionCmd, cmd.CreateCmd and
\* cmd.DockerCmd added; docker's subcommand "up" is the one the root's help
\* text names first.
ProgramTree ==
    [n \in 0..4 |->
        CASE n = 0 -> [Use |-> acontext, parent |-> NoParent, ctx |-> NoTime]
          [] n = 1 -> [Use |-> sVersion, parent |-> 0, ctx |-> NoTime]
          [] n = 2 -> [Use |-> sCreate,  parent |-> 0, ctx |-> NoTime]
          [] n = 3 -> [Use |-> sDocker,  parent |-> 0, ctx |-> NoTime]
          [] n = 4 -> [Use |-> sUp,      parent |-> 3, ctx |-> NoTime]]

rootCmd == 0

\* Number of parent links between node n and the root.
RECURSIVE Depth(_, _)
Depth(t, n) == IF t[n].parent = NoParent THEN 0 ELSE 1 + Depth(t, t[n].parent)

\* The nodes on the walk from the root's child down to n (the root excluded).
RECURSIVE Chain(_, _)
Chain(t, n) ==
    IF t[n].parent = NoParent THEN <<>> ELSE Append(Chain(t, t[n].parent), n)

\* The loop of buildCommandPath: parts after walking up from current.
RECURSIVE WalkUp(_, _, _)
WalkUp(t, current, parts) ==
    IF current # NoParent /\ t[current].Use # acontext
    THEN WalkUp(t, t[current].parent, <<t[current].Use>> \o parts)
    ELSE parts

\* A walk that appends each name instead of prepending it.
RECURSIVE WalkUpAppend(_, _, _)
WalkUpAppend(t, current, parts) ==
    IF current # NoParent /\ t[current].Use # acontext
    THEN WalkUpAppend(t, t[current].parent, Append(parts, t[current].Use))
    ELSE parts

buildCommandPathAppend(t, cmd) ==
    LET parts == WalkUpAppend(t, cmd, <<>>)
    IN  IF Len(parts) = 0 THEN sRoot ELSE Join(parts, sDot)

\* A path builder without the "root" sentinel for an empty walk.
buildCommandPathNoSentinel(t, cmd) == Join(WalkUp(t, cmd, <<>>), sDot)

buildCommandPath(t, cmd) ==
    LET parts == WalkUp(t, cmd, <<>>)
    IN  IF Len(parts) = 0 THEN sRoot ELSE Join(parts, sDot)

\* ------------------------------------------------------------------ flags

\* A flag value is [kind, v]: a bool, a string or an int (pflag.Value).
BoolVal(b) == [kind |-> "bool", v |-> b]
StrVal(s)  == [kind |-> "string", v |-> s]
IntVal(i)  == [kind |-> "int", v |-> i]

Digits == <<"0","1","2","3","4","5","6","7","8","9">>

\* strconv.Itoa for a natural number.
RECURSIVE Itoa(_)
Itoa(n) == IF n < 10 THEN <<Digits[n + 1]>>
           ELSE Itoa(n \div 10) \o <<Digits[(n % 10) + 1]>>

\* flag.Value.String()
ValueString(val) ==
    CASE val.kind = "bool"   -> IF val.v THEN sTrue ELSE sFalse
      [] val.kind = "string" -> val.v
      [] val.kind = "int"    -> Itoa(val.v)

\* A flag set maps each declared flag name to [def, val, changed]; changed
\* is pflag's per-flag explicit-set bit, which Visit consults.

\* VisitAll in place of Visit: every declared flag is reported.
collectFlagsVisitAll(fs) == [f \in DOMAIN fs |-> ValueString(fs[f].val)]

collectFlags(fs) ==
    [f \in {g \in DOMAIN fs : fs[g].changed} |-> ValueString(fs[f].val)]

\* ------------------------------------------------------------- arguments

HelpTokens == {sHelpLong, sHelpShort, sHelpWord}

IsHelpToken(arg) == arg \in HelpTokens

\* A filter that forgets the bare word "help".
filterArgsNoWord(args) ==
    SelectSeq(args, LAMBDA arg : arg \notin {sHelpLong, sHelpShort})

\* A filter that drops only the first help token it meets.
RECURSIVE filterArgsFirstOnly(_)
filterArgsFirstOnly(args) ==
    IF Len(args) = 0 THEN <<>>
    ELSE IF IsHelpToken(Head(args)) THEN Tail(args)
    ELSE <<Head(args)>> \o filterArgsFirstOnly(Tail(args))

filterArgs(args) == SelectSeq(args, LAMBDA arg : ~IsHelpToken(arg))

\* ------------------------------------------------------- command lines

sTemplate == <<"t","e","m","p","l","a","t","e">>
sTemplateTs == <<"-","-","t","e","m","p","l","a","t","e","=","t","s">>
sTemplatePy == <<"-","-","t","e","m","p","l","a","t","e","=","p","y">>
sBogus == <<"b","o","g","u","s">>

\* The flags a command declares, all at their defaults (cmd.Flags() before
\* parsing): create declares --template with default "py".
DeclaredFlags(c) ==
    IF c = 2
    THEN (sTemplate :> [def |-> StrVal(sPython), val |-> StrVal(sPython),
                        changed |-> FALSE])
    ELSE <<>>

\* Tokens that do not start with "-" (cobra's stripFlags, flags given as
\* --name=value).
StripFlags(argv) == SelectSeq(argv, LAMBDA a : Len(a) = 0 \/ a[1] # "-")

ChildNamed(t, c, name) ==
    {n \in DOMAIN t : t[n].parent = c /\ t[n].Use = name}

\* cobra's innerfind over the flag-free tokens: [cmd, rest].
RECURSIVE InnerFind(_, _, _)
InnerFind(t, c, toks) ==
    IF Len(toks) = 0 \/ ChildNamed(t, c, Head(toks)) = {}
    THEN [cmd |-> c, rest |-> toks]
    ELSE InnerFind(t, CHOOSE n \in ChildNamed(t, c, Head(toks)) : TRUE, Tail(toks))

\* rootCmd.Find(os.Args[1:]): the deepest command the tokens name.
Find(t, argv) == InnerFind(t, rootCmd, StripFlags(argv)).cmd

\* The positional arguments cobra hands to the hooks of that command.
Positional(t, argv) == InnerFind(t, rootCmd, StripFlags(argv)).rest

\* The command lines of the runs: os.Args[1:], the flags the line sets, the
\* error cobra raises before any hook (unknown command), and whether the line
\* asks for help (cobra prints help and runs no hook).
Invocations ==
    { [argv |-> <<>>, set |-> <<>>, parseErr |-> "nil", help |-> FALSE],
      [argv |-> <<sVersion>>, set |-> <<>>, parseErr |-> "nil", help |-> FALSE],
      [argv |-> <<sCreate, sMyapp, sTemplateTs>>,
       set |-> (sTemplate :> StrVal(sTs)), parseErr |-> "nil", help |-> FALSE],
      [argv |-> <<sCreate, sHelpWord, sTemplatePy>>,
       set |-> (sTemplate :> StrVal(sPython)), parseErr |-> "nil", help |-> FALSE],
      [argv |-> <<sDocker, sUp>>, set |-> <<>>, parseErr |-> "nil", help |-> FALSE],
      [argv |-> <<sBogus>>, set |-> <<>>, parseErr |-> "unknown command",
       help |-> FALSE],
      [argv |-> <<sHelpLong>>, set |-> <<>>, parseErr |-> "nil", help |-> TRUE] }

\* Errors a command's own action returns.
RunErrors == {"disk full"}

\* pflag parsing: every flag the line sets gets its value and its changed bit.
ParseFlags(decl, set) ==
    [f \in DOMAIN decl |->
        IF f \in DOMAIN set
        THEN [def |-> decl[f].def, val |-> set[f], changed |-> TRUE]
        ELSE decl[f]]

\* ------------------------------------------------------------------ state

VARIABLES
    version,     \* var version
    tree,        \* the command nodes: Use, parent, and the context's start_time
    inv,         \* the command line of this run
    cmd,         \* the command cobra resolved and executes
    args,        \* the positional arguments cobra passes to the hooks
    flags,       \* cmd.Flags() of the resolved command
    now,         \* the clock
    pc,          \* position of the process's main flow of control
    cmdErr,      \* what rootCmd.Execute() returned ("nil" or the error text)
    postRunRet,  \* what PersistentPostRunE returned
    calls,       \* the calls of trackCommandAndWait so far: [site, success]
    events,      \* the events handed to telemetry.TrackCommandAsync
    tx,          \* the transmission: "none", "inflight", "completed", "failed"
    wg,          \* counter of the WaitGroup TrackCommandAsync returned
    done,        \* whether the done channel is closed
    waitStart,   \* the time the select began
    returns,     \* the returns of trackCommandAndWait so far: [time, by, tx]
    stderr,      \* the lines written to os.Stderr
    exitStatus,  \* the process's exit status once it has terminated
    preRunAt,    \* the time at which the pre-run hook ran
    probe        \* input and output of a pure function applied on its own

vars == <<version, tree, inv, cmd, args, flags, now, pc, cmdErr, postRunRet,
          calls, events, tx, wg, done, waitStart, returns, stderr, exitStatus,
          probe, preRunAt>>

NoCmd == -1
NoStatus == -1
NoProbe == [fn |-> "none"]

Init ==
    /\ version \in Versions
    /\ tree = ProgramTree
    /\ inv \in Invocations
    /\ cmd = NoCmd
    /\ args = <<>>
    /\ flags = <<>>
    /\ now = 0
    /\ pc = "main"
    /\ cmdErr = "nil"
    /\ postRunRet = "nil"
    /\ calls = <<>>
    /\ events = <<>>
    /\ tx = "none"
    /\ wg = 0
    /\ done = FALSE
    /\ waitStart = NoTime
    /\ returns = <<>>
    /\ stderr = <<>>
    /\ exitStatus = NoStatus
    /\ preRunAt = NoTime
    /\ probe = NoProbe

\* ------------------------------------------------------------- dispatcher

\* A guard that compares against the wrong sentinel and so never suppresses.
SuppressedNever(v) == v = "development"

\* if version == "dev" { return }
Suppressed(v) == v = Dev

\* A duration computed as start minus now.
DurationReversed(success, start, t) ==
    IF success THEN (IF start # NoTime THEN start ELSE t) - t ELSE 0

\* A duration that uses the context value without the !ok fallback.
DurationNoFallback(success, start, t) == IF success THEN t - start ELSE 0

\* var duration; if success { startTime, ok := ctx value; if !ok { startTime =
\* now }; duration = time.Since(startTime) }
Duration(success, start, t) ==
    IF success THEN t - (IF start # NoTime THEN start ELSE t) ELSE 0

\* The arguments of telemetry.TrackCommandAsync, as one record.
TelemetryEvent(c, a, err, success) ==
    [path     |-> buildCommandPath(tree, c),
     args     |-> filterArgs(a),
     flags    |-> collectFlags(flags),
     success  |-> success,
     err      |-> err,
     duration |-> Duration(success, tree[c].ctx, now),
     version  |-> version]

\* telemetry.TrackCommandAsync: takes the event, starts the one unit of work
\* that sends it, and returns a WaitGroup that unit releases when it ends.
TrackCommandAsync(ev) ==
    /\ events' = Append(events, ev)
    /\ tx' = "inflight"
    /\ wg' = wg + 1

\* Where control goes when trackCommandAndWait returns to its call site.
ReturnPc(site) == IF site = "postrun" THEN "postret" ELSE "mainret"

\* trackCommandAndWait up to its select: the version guard, the event, the
\* asynchronous send and the goroutine that waits on the WaitGroup.
TrackCommandAndWait(c, a, err, success, site) ==
    /\ calls' = Append(calls, [site |-> site, success |-> success])
    /\ IF Suppressed(version)
       THEN /\ pc' = ReturnPc(site)
            /\ returns' = Append(returns, [time |-> now, by |-> "suppressed", tx |-> tx])
            /\ UNCHANGED <<events, tx, wg, waitStart>>
       ELSE /\ TrackCommandAsync(TelemetryEvent(c, a, err, success))
            /\ waitStart' = now
            /\ pc' = "select"
            /\ UNCHANGED returns
    /\ UNCHANGED done

\* A timer that is never armed: the select has only the done case.
TimerFiredNever(start, t) == FALSE

\* case <-time.After(5 * time.Second)
TimerFired(start, t) == t - start >= Ceiling

LastSite == calls[Len(calls)].site

\* case <-done
SelectDone ==
    /\ pc = "select"
    /\ done
    /\ pc' = ReturnPc(LastSite)
    /\ returns' = Append(returns, [time |-> now, by |-> "done", tx |-> tx])
    /\ UNCHANGED <<version, tree, inv, cmd, args, flags, now, cmdErr, postRunRet,
                   calls, events, tx, wg, done, waitStart, stderr, exitStatus,
                   probe, preRunAt>>

\* On the timeout the event is sent a second time before returning.
SelectTimeoutRetry ==
    /\ pc = "select"
    /\ TimerFired(waitStart, now)
    /\ pc' = ReturnPc(LastSite)
    /\ events' = Append(events, events[Len(events)])
    /\ tx' = "inflight"
    /\ wg' = wg + 1
    /\ returns' = Append(returns, [time |-> now, by |-> "timeout", tx |-> tx])
    /\ UNCHANGED <<version, tree, inv, cmd, args, flags, now, cmdErr, postRunRet,
                   calls, done, waitStart, stderr, exitStatus,
                   probe, preRunAt>>

\* On the timeout the in-flight transmission is cancelled.
SelectTimeoutCancel ==
    /\ pc = "select"
    /\ TimerFired(waitStart, now)
    /\ pc' = ReturnPc(LastSite)
    /\ tx' = IF tx = "inflight" THEN "cancelled" ELSE tx
    /\ returns' = Append(returns, [time |-> now, by |-> "timeout", tx |-> tx])
    /\ UNCHANGED <<version, tree, inv, cmd, args, flags, now, cmdErr, postRunRet,
                   calls, events, wg, done, waitStart, stderr, exitStatus,
                   probe, preRunAt>>

\* A select with a default case: it returns without the timer having fired.
SelectTimeoutEager ==
    /\ pc = "select"
    /\ pc' = ReturnPc(LastSite)
    /\ returns' = Append(returns, [time |-> now, by |-> "timeout", tx |-> tx])
    /\ UNCHANGED <<version, tree, inv, cmd, args, flags, now, cmdErr, postRunRet,
                   calls, events, tx, wg, done, waitStart, stderr, exitStatus,
                   probe, preRunAt>>

\* case <-time.After(...)
SelectTimeout ==
    /\ pc = "select"
    /\ TimerFired(waitStart, now)
    /\ pc' = ReturnPc(LastSite)
    /\ returns' = Append(returns, [time |-> now, by |-> "timeout", tx |-> tx])
    /\ UNCHANGED <<version, tree, inv, cmd, args, flags, now, cmdErr, postRunRet,
                   calls, events, tx, wg, done, waitStart, stderr, exitStatus,
                   probe, preRunAt>>

\* go func() { wg.Wait(); close(done) }()
WaiterClose ==
    /\ waitStart # NoTime
    /\ pc # "exited"
    /\ wg = 0
    /\ ~done
    /\ done' = TRUE
    /\ UNCHANGED <<version, tree, inv, cmd, args, flags, now, pc, cmdErr,
                   postRunRet, calls, events, tx, wg, waitStart, returns, stderr,
                   exitStatus, probe, preRunAt>>

\* The transmission ends well and releases the WaitGroup.
TxComplete ==
    /\ tx = "inflight"
    /\ pc # "exited"
    /\ tx' = "completed"
    /\ wg' = wg - 1
    /\ UNCHANGED <<version, tree, inv, cmd, args, flags, now, pc, cmdErr,
                   postRunRet, calls, events, done, waitStart, returns, stderr,
                   exitStatus, probe, preRunAt>>

\* The transmission fails; the failure is dropped and the WaitGroup released.
TxFail ==
    /\ tx = "inflight"
    /\ pc # "exited"
    /\ tx' = "failed"
    /\ wg' = wg - 1
    /\ UNCHANGED <<version, tree, inv, cmd, args, flags, now, pc, cmdErr,
                   postRunRet, calls, events, done, waitStart, returns, stderr,
                   exitStatus, probe, preRunAt>>

\* ------------------------------------------------------- lifecycle hooks

\* rootCmd.Execute() up to the hooks: cobra resolves the command, parses its
\* flags, and either prints help, fails, or goes on to the pre-run hook.
ExecuteC ==
    /\ pc = "main"
    /\ cmd' = Find(tree, inv.argv)
    /\ args' = Positional(tree, inv.argv)
    /\ flags' = ParseFlags(DeclaredFlags(cmd'), inv.set)
    /\ IF inv.help THEN pc' = "executed" /\ cmdErr' = "nil"
       ELSE IF inv.parseErr # "nil" THEN pc' = "executed" /\ cmdErr' = inv.parseErr
       ELSE pc' = "prerun" /\ cmdErr' = cmdErr
    /\ UNCHANGED <<version, tree, inv, now, postRunRet, calls, events, tx, wg,
                   done, waitStart, returns, stderr, exitStatus, probe, preRunAt>>

\* A pre-run hook that builds the context and never sets it on the command.
PersistentPreRunNoStore ==
    /\ pc = "prerun"
    /\ preRunAt' = now
    /\ pc' = "run"
    /\ UNCHANGED <<version, tree, inv, cmd, args, flags, now, cmdErr, postRunRet,
                   calls, events, tx, wg, done, waitStart, returns, stderr,
                   exitStatus, probe>>

\* A pre-run hook that sets the context on rootCmd instead of on cmd.
PersistentPreRunOnRoot ==
    /\ pc = "prerun"
    /\ tree' = [tree EXCEPT ![rootCmd].ctx = now]
    /\ preRunAt' = now
    /\ pc' = "run"
    /\ UNCHANGED <<version, inv, cmd, args, flags, now, cmdErr, postRunRet, calls,
                   events, tx, wg, done, waitStart, returns, stderr, exitStatus,
                   probe>>

\* PersistentPreRun: cmd.SetContext(context.WithValue(..., time.Now()))
PersistentPreRun ==
    /\ pc = "prerun"
    /\ tree' = [tree EXCEPT ![cmd].ctx = now]
    /\ preRunAt' = now
    /\ pc' = "run"
    /\ UNCHANGED <<version, inv, cmd, args, flags, now, cmdErr, postRunRet, calls,
                   events, tx, wg, done, waitStart, returns, stderr, exitStatus,
                   probe>>

\* Time passes before the pre-run hook, while the command's action runs and
\* while the select waits;
\* an expired timer is taken before more time passes.
Tick ==
    /\ \/ pc = "prerun" /\ now < MaxStartDelay
       \/ pc = "run" /\ now - preRunAt < MaxRunTime
       \/ pc = "select" /\ ~TimerFired(waitStart, now)
                        /\ now - waitStart < Ceiling + MaxRunTime
    /\ now' = now + 1
    /\ UNCHANGED <<version, tree, inv, cmd, args, flags, pc, cmdErr, postRunRet,
                   calls, events, tx, wg, done, waitStart, returns, stderr,
                   exitStatus, probe, preRunAt>>

\* The command's Run returns without error.
RunOK ==
    /\ pc = "run"
    /\ pc' = "postrun"
    /\ UNCHANGED <<version, tree, inv, cmd, args, flags, now, cmdErr, postRunRet,
                   calls, events, tx, wg, done, waitStart, returns, stderr,
                   exitStatus, probe, preRunAt>>

\* The command's RunE returns an error: cobra skips the post-run hooks.
RunFail ==
    /\ pc = "run"
    /\ \E e \in RunErrors : cmdErr' = e
    /\ pc' = "executed"
    /\ UNCHANGED <<version, tree, inv, cmd, args, flags, now, postRunRet, calls,
                   events, tx, wg, done, waitStart, returns, stderr, exitStatus,
                   probe, preRunAt>>

\* PersistentPostRunE: trackCommandAndWait(cmd, args, nil, true)
PersistentPostRunE ==
    /\ pc = "postrun"
    /\ TrackCommandAndWait(cmd, args, "nil", TRUE, "postrun")
    /\ UNCHANGED <<version, tree, inv, cmd, args, flags, now, cmdErr, postRunRet,
                   stderr, exitStatus, probe, preRunAt>>

\* A hook that hands the transmission's failure back to cobra.
PostRunResultPropagates(txState) ==
    IF txState = "failed" THEN "telemetry failed" ELSE "nil"

\* return nil
PostRunResult(txState) == "nil"

\* A hook that clears the command's context before it returns.
PostRunReturnClearsCtx ==
    /\ pc = "postret"
    /\ postRunRet' = PostRunResult(tx)
    /\ cmdErr' = postRunRet'
    /\ tree' = [tree EXCEPT ![cmd].ctx = NoTime]
    /\ pc' = "executed"
    /\ UNCHANGED <<version, inv, cmd, args, flags, now, calls, events, tx, wg,
                   done, waitStart, returns, stderr, exitStatus, probe, preRunAt>>

\* PersistentPostRunE returns; Execute returns what the hook returned.
PostRunReturn ==
    /\ pc = "postret"
    /\ postRunRet' = PostRunResult(tx)
    /\ cmdErr' = postRunRet'
    /\ pc' = "executed"
    /\ UNCHANGED <<version, tree, inv, cmd, args, flags, now, calls, events, tx,
                   wg, done, waitStart, returns, stderr, exitStatus, probe, preRunAt>>

\* ------------------------------------------------------------------- main

\* os.Exit(1)
ExitCode == 1

\* Execute returned nil: main returns and the process ends with status 0.
MainReturn ==
    /\ pc = "executed"
    /\ cmdErr = "nil"
    /\ pc' = "exited"
    /\ exitStatus' = 0
    /\ UNCHANGED <<version, tree, inv, cmd, args, flags, now, cmdErr, postRunRet,
                   calls, events, tx, wg, done, waitStart, returns, stderr, probe, preRunAt>>

\* The error goes to telemetry without being printed first.
MainReportErrorSilent ==
    /\ pc = "executed"
    /\ cmdErr # "nil"
    /\ pc' = "failtrack"
    /\ UNCHANGED <<version, tree, inv, cmd, args, flags, now, cmdErr, postRunRet,
                   calls, events, tx, wg, done, waitStart, returns, stderr,
                   exitStatus, probe, preRunAt>>

\* The failure handler entered whatever Execute returned.
MainReportErrorAlways ==
    /\ pc = "executed"
    /\ stderr' = Append(stderr, cmdErr)
    /\ pc' = "failtrack"
    /\ UNCHANGED <<version, tree, inv, cmd, args, flags, now, cmdErr, postRunRet,
                   calls, events, tx, wg, done, waitStart, returns, exitStatus,
                   probe, preRunAt>>

\* if cmdErr != nil { fmt.Fprintf(os.Stderr, "Error: %v\n", cmdErr)
MainReportError ==
    /\ pc = "executed"
    /\ cmdErr # "nil"
    /\ stderr' = Append(stderr, cmdErr)
    /\ pc' = "failtrack"
    /\ UNCHANGED <<version, tree, inv, cmd, args, flags, now, cmdErr, postRunRet,
                   calls, events, tx, wg, done, waitStart, returns, exitStatus,
                   probe, preRunAt>>

\* executedCmd, _, _ := rootCmd.Find(os.Args[1:]), rootCmd when that is nil.
ExecutedCmd ==
    LET found == Find(tree, inv.argv)
    IN  IF found = NoCmd THEN rootCmd ELSE found

\* The process exits before the failure is tracked.
MainTrackExitFirst ==
    /\ pc = "failtrack"
    /\ pc' = "exited"
    /\ exitStatus' = ExitCode
    /\ UNCHANGED <<version, tree, inv, cmd, args, flags, now, cmdErr, postRunRet,
                   calls, events, tx, wg, done, waitStart, returns, stderr, probe, preRunAt>>

\* trackCommandAndWait(executedCmd, os.Args[1:], cmdErr, false)
MainTrack ==
    /\ pc = "failtrack"
    /\ TrackCommandAndWait(ExecutedCmd, inv.argv, cmdErr, FALSE, "main")
    /\ UNCHANGED <<version, tree, inv, cmd, args, flags, now, cmdErr, postRunRet,
                   stderr, exitStatus, probe, preRunAt>>

\* os.Exit(1)
MainExit ==
    /\ pc = "mainret"
    /\ pc' = "exited"
    /\ exitStatus' = ExitCode
    /\ UNCHANGED <<version, tree, inv, cmd, args, flags, now, cmdErr, postRunRet,
                   calls, events, tx, wg, done, waitStart, returns, stderr, probe, preRunAt>>

\* ---------------------------------------------------------- specification

MainFlow ==
    \/ ExecuteC \/ PersistentPreRun \/ Tick \/ RunOK \/ RunFail
    \/ PersistentPostRunE \/ SelectDone \/ SelectTimeout \/ PostRunReturn
    \/ MainReturn \/ MainReportError \/ MainTrack \/ MainExit

Next ==
    \/ ExecuteC
    \/ PersistentPreRun
    \/ Tick
    \/ RunOK
    \/ RunFail
    \/ PersistentPostRunE
    \/ TxComplete
    \/ TxFail
    \/ WaiterClose
    \/ SelectDone
    \/ SelectTimeout
    \/ PostRunReturn
    \/ MainReturn
    \/ MainReportError
    \/ MainTrack
    \/ MainExit

Spec == Init /\ [][Next]_vars

\* The main flow is one sequential flow of control that keeps running, time
\* passes, and the waiting goroutine is scheduled; nothing obliges the
\* transmission to end.
FairSpec == Spec /\ WF_vars(MainFlow) /\ WF_vars(WaiterClose)

\* ------------------------------------------- the pure functions on their own

sPort == <<"p","o","r","t">>
sA == <<"a">>
sB == <<"b">>
sC == <<"c">>

\* Use strings of the non-root commands of the drawn trees.
UseNames == {sCreate, sDocker, sUp}

\* The acyclic single-rooted trees of k nodes: node 0 is the root, named
\* after the program, and every other node hangs under an earlier node.
Trees(k) ==
    { [n \in 0..(k - 1) |->
          IF n = 0 THEN [Use |-> acontext, parent |-> NoParent, ctx |-> NoTime]
          ELSE [Use |-> u[n], parent |-> par[n], ctx |-> NoTime]] :
      u \in [1..(k - 1) -> UseNames],
      par \in {q \in [1..(k - 1) -> 0..(k - 1)] : \A n \in 1..(k - 1) : q[n] < n} }

FlagNames == {sTemplate, sPort}

FlagValues ==
    {BoolVal(b) : b \in BOOLEAN} \cup {StrVal(x) : x \in {sPython, sTs}}
    \cup {IntVal(i) : i \in {0} \cup ((MaxIntFlag - 2)..MaxIntFlag)}

\* The states of one flag: a flag that was never set still has its default.
FlagStates ==
    { [def |-> d, val |-> v, changed |-> c] :
      d \in FlagValues, v \in FlagValues, c \in BOOLEAN }

WellFormedFlag(f) ==
    /\ f.def.kind = f.val.kind
    /\ ~f.changed => f.val = f.def

FlagSets ==
    UNION { [names -> {f \in FlagStates : WellFormedFlag(f)}] :
            names \in SUBSET FlagNames }

ArgTokens == {sA, sB, sHelpLong, sHelpShort, sHelpWord}

\* The argument list ["a", "--help", "b", "-h", "help", "c"].
ExampleArgs == <<sA, sHelpLong, sB, sHelpShort, sHelpWord, sC>>

ArgLists == UNION { [1..k -> ArgTokens] : k \in 0..MaxArgs } \cup {ExampleArgs}

FnInit ==
    /\ version = Dev
    /\ tree = ProgramTree
    /\ inv = [argv |-> <<>>, set |-> <<>>, parseErr |-> "nil", help |-> FALSE]
    /\ cmd = NoCmd
    /\ args = <<>>
    /\ flags = <<>>
    /\ now = 0
    /\ pc = "idle"
    /\ cmdErr = "nil"
    /\ postRunRet = "nil"
    /\ calls = <<>>
    /\ events = <<>>
    /\ tx = "none"
    /\ wg = 0
    /\ done = FALSE
    /\ waitStart = NoTime
    /\ returns = <<>>
    /\ stderr = <<>>
    /\ exitStatus = NoStatus
    /\ preRunAt = NoTime
    /\ probe = NoProbe

lifecycle == <<version, tree, inv, cmd, args, flags, now, pc, cmdErr, postRunRet,
               calls, events, tx, wg, done, waitStart, returns, stderr,
               exitStatus, preRunAt>>

ApplyBuildCommandPath ==
    /\ probe = NoProbe
    /\ \E k \in 1..MaxNodes : \E t \in Trees(k) : \E n \in DOMAIN t :
          probe' = [fn |-> "buildCommandPath", tree |-> t, cmd |-> n,
                    out |-> buildCommandPath(t, n)]
    /\ UNCHANGED lifecycle

ApplyCollectFlags ==
    /\ probe = NoProbe
    /\ \E fs \in FlagSets :
          probe' = [fn |-> "collectFlags", flags |-> fs, out |-> collectFlags(fs)]
    /\ UNCHANGED lifecycle

ApplyFilterArgs ==
    /\ probe = NoProbe
    /\ \E a \in ArgLists :
          probe' = [fn |-> "filterArgs", args |-> a, out |-> filterArgs(a),
                    again |-> filterArgs(filterArgs(a))]
    /\ UNCHANGED lifecycle

FnNext == ApplyBuildCommandPath \/ ApplyCollectFlags \/ ApplyFilterArgs

FnSpec == FnInit /\ [][FnNext]_vars

\* ------------------------------------------------------------ properties

LastReturn == returns[Len(returns)]

\* C1: a call of trackCommandAndWait with a non-development version is back
\* with its caller no later than Ceiling time units after its wait began,
\* whether the transmission completed, failed or never ends: the wait never
\* lasts longer than the ceiling, every return falls within it, and a wait
\* that began always ends.
C1_BoundedReturn ==
    /\ [](pc = "select" => now - waitStart <= Ceiling)
    /\ [](\A i \in 1..Len(returns) :
             returns[i].by # "suppressed" => returns[i].time - waitStart <= Ceiling)
    /\ [](pc = "select" => <>(pc # "select"))

\* The call returned on the timer, a full ceiling after the wait began, with
\* the transmission still in flight.
C1_Witness ==
    /\ version # Dev
    /\ Len(returns) = 1
    /\ LastReturn.by = "timeout"
    /\ LastReturn.time - waitStart = Ceiling
    /\ tx = "inflight"

\* C2: with the development version no call of trackCommandAndWait, from the
\* success hook or from main's failure handler, builds an event, starts a
\* transmission or a waiting goroutine, or enters the bounded wait.
C2_DevSuppressed ==
    version = Dev =>
        /\ events = <<>>
        /\ tx = "none"
        /\ wg = 0
        /\ ~done
        /\ waitStart = NoTime
        /\ pc # "select"
        /\ \A i \in 1..Len(returns) : returns[i].by = "suppressed"

\* A development build whose failure handler called the dispatcher and exited.
C2_Witness ==
    /\ version = Dev
    /\ pc = "exited"
    /\ Len(calls) = 1
    /\ calls[1].site = "main"

\* The command's own action succeeded: only then does cobra run the post-run
\* hook, the one caller that reports a success.
RunSucceeded == \E i \in 1..Len(calls) : calls[i].site = "postrun"

\* C3: what the transmission did is never visible to the host command: the
\* post-run hook returns nil in every case, and the exit status is 0 exactly
\* when the command succeeded (or help was printed), whatever the
\* transmission's outcome.
C3_TelemetryInvisible ==
    /\ postRunRet = "nil"
    /\ pc = "exited" => (exitStatus = 0 <=> (inv.help \/ RunSucceeded))
    /\ pc = "exited" => exitStatus \in {0, ExitCode}

\* A successful command whose transmission failed, ended with status 0.
C3_Witness ==
    /\ pc = "exited"
    /\ RunSucceeded
    /\ tx = "failed"
    /\ exitStatus = 0

\* C4: every event handed to the transmission that comes from the success
\* hook has success = true, a duration >= 0 and no error; every event that
\* comes from main's failure handler has success = false, the zero duration
\* that is never computed, and a non-empty error text.
C4_EventShape ==
    \A i \in 1..Len(events) :
        /\ i <= Len(calls)
        /\ calls[i].site = "postrun" =>
              /\ events[i].success
              /\ events[i].duration >= 0
              /\ events[i].err = "nil"
        /\ calls[i].site = "main" =>
              /\ ~events[i].success
              /\ events[i].duration = 0
              /\ events[i].err \notin {"nil", ""}

\* The failure event of a command that ran for a while and returned "disk
\* full".
C4_Witness ==
    /\ Len(events) = 1
    /\ ~events[1].success
    /\ events[1].err = "disk full"
    /\ now = MaxRunTime

\* C5: in one process run trackCommandAndWait is called at most once, by the
\* post-run hook or by main's failure handler, never by both.
C5_TrackedOnce == Len(calls) <= 1

\* A run that ended after the success hook made its one call.
C5_Witness ==
    /\ pc = "exited"
    /\ Len(calls) = 1
    /\ calls[1].site = "postrun"
    /\ version # Dev

\* C6: once Execute has returned an error the process ends with status 1,
\* and only after the one dispatcher call it makes has returned; with
\* telemetry suppressed, completed or never completing.
C6_FailureExits ==
    /\ []((pc = "executed" /\ cmdErr # "nil") =>
             <>(pc = "exited" /\ exitStatus = ExitCode))
    /\ []((pc = "exited" /\ cmdErr # "nil") =>
             /\ exitStatus = ExitCode
             /\ Len(calls) = 1
             /\ Len(returns) = 1)

\* A failed run that exited with status 1 after the wait timed out on a
\* transmission that never ended.
C6_Witness ==
    /\ pc = "exited"
    /\ cmdErr = "disk full"
    /\ exitStatus = ExitCode
    /\ tx = "inflight"
    /\ LastReturn.by = "timeout"

\* C7: on the failure path the error is on the standard error stream before
\* the dispatcher is called: no call from main, hence no transmission and no
\* wait for a failed invocation, exists before the error was written.
C7_StderrFirst ==
    /\ pc = "failtrack" => stderr = <<cmdErr>>
    /\ \A i \in 1..Len(calls) : calls[i].site = "main" => stderr = <<cmdErr>>

\* The wait for a failed invocation is under way and the error is on stderr.
C7_Witness ==
    /\ pc = "select"
    /\ LastSite = "main"
    /\ stderr = <<"disk full">>
    /\ tx = "inflight"

\* C8: for a node at depth d >= 1, buildCommandPath is the dot-joined Use
\* strings of the d nodes on the walk from the root's child down to the
\* node, in that order: splitting it at "." gives exactly d segments, and
\* none of them is the root's name.
C8_PathSegments ==
    (probe.fn = "buildCommandPath" /\ Depth(probe.tree, probe.cmd) >= 1) =>
        LET t == probe.tree
            chain == Chain(t, probe.cmd)
            segs == Split(probe.out, ".")
        IN  /\ Len(segs) = Depth(t, probe.cmd)
            /\ segs = [i \in 1..Len(chain) |-> t[chain[i]].Use]
            /\ \A i \in 1..Len(segs) : segs[i] # t[rootCmd].Use

\* The path of a node three levels below the root.
C8_Witness ==
    /\ probe.fn = "buildCommandPath"
    /\ Depth(probe.tree, probe.cmd) = 3
    /\ probe.out = sCreate \o sDot \o sDocker \o sDot \o sUp

\* C9: buildCommandPath of the root command is the sentinel "root".
C9_RootSentinel ==
    (probe.fn = "buildCommandPath" /\ probe.tree[probe.cmd].parent = NoParent) =>
        probe.out = sRoot

\* The root of a tree that has subcommands was resolved.
C9_Witness ==
    /\ probe.fn = "buildCommandPath"
    /\ probe.cmd = rootCmd
    /\ Cardinality(DOMAIN probe.tree) = MaxNodes
    /\ probe.out = sRoot

DigitValue(ch) == CHOOSE d \in 0..9 : Digits[d + 1] = ch

\* strconv.Atoi of a string of decimal digits.
RECURSIVE Atoi(_)
Atoi(s) == IF Len(s) = 0 THEN 0
           ELSE 10 * Atoi(SubSeq(s, 1, Len(s) - 1)) + DigitValue(s[Len(s)])

\* s is the string form of the flag value val.
IsStringForm(s, val) ==
    CASE val.kind = "bool"   -> s \in {sTrue, sFalse} /\ (s = sTrue <=> val.v)
      [] val.kind = "string" -> s = val.v
      [] val.kind = "int"    ->
            /\ Len(s) >= 1
            /\ \A i \in 1..Len(s) : \E d \in 1..10 : Digits[d] = s[i]
            /\ (Len(s) > 1 => s[1] # "0")
            /\ Atoi(s) = val.v

\* C10: the keys of collectFlags' output are exactly the flags that were
\* explicitly set; a flag left at its declared default is absent, and a flag
\* that was set, even to its default, maps to the string form of its value.
C10_ExplicitFlags ==
    probe.fn = "collectFlags" =>
        /\ DOMAIN probe.out = {f \in DOMAIN probe.flags : probe.flags[f].changed}
        /\ \A f \in DOMAIN probe.out : IsStringForm(probe.out[f], probe.flags[f].val)

\* One flag left at its default and absent, another set explicitly to its
\* default value and present.
C10_Witness ==
    /\ probe.fn = "collectFlags"
    /\ DOMAIN probe.flags = FlagNames
    /\ ~probe.flags[sPort].changed
    /\ probe.flags[sTemplate].changed
    /\ probe.flags[sTemplate].val = probe.flags[sTemplate].def
    /\ DOMAIN probe.out = {sTemplate}
    /\ probe.out[sTemplate] = sPython

\* The positions of args that hold no help token.
KeptIndices(a) ==
    {i \in 1..Len(a) : a[i] # sHelpLong /\ a[i] # sHelpShort /\ a[i] # sHelpWord}

\* The position in a of the j-th token that is no help token.
KeptIndex(a, j) ==
    CHOOSE k \in KeptIndices(a) : Cardinality({i \in KeptIndices(a) : i <= k}) = j

\* C11: filterArgs returns its argument list without the tokens "--help",
\* "-h" and "help" and with nothing else removed: the result is as long as
\* the number of other tokens and its j-th token is the j-th other token of
\* the input, so order and multiplicity are kept; the list
\* ["a","--help","b","-h","help","c"] gives ["a","b","c"].
C11_FilterArgs ==
    probe.fn = "filterArgs" =>
        /\ Len(probe.out) = Cardinality(KeptIndices(probe.args))
        /\ \A j \in 1..Len(probe.out) :
              probe.out[j] = probe.args[KeptIndex(probe.args, j)]
        /\ probe.args = ExampleArgs => probe.out = <<sA, sB, sC>>

\* The example list was filtered to ["a","b","c"].
C11_Witness ==
    /\ probe.fn = "filterArgs"
    /\ probe.args = ExampleArgs
    /\ probe.out = <<sA, sB, sC>>

\* C12: filterArgs is idempotent: filtering the filtered list gives the
\* filtered list again.
C12_Idempotent ==
    probe.fn = "filterArgs" => probe.again = probe.out

\* A list with two help tokens around a kept token was filtered twice.
C12_Witness ==
    /\ probe.fn = "filterArgs"
    /\ probe.args = <<sHelpShort, sA, sHelpWord>>
    /\ probe.out = <<sA>>
    /\ probe.again = <<sA>>

\* A token that starts with "-".
IsFlagToken(a) == Len(a) > 0 /\ a[1] = "-"

\* C13: in every event, from the success path or the failure path, args is
\* the invocation's positional argument list without help tokens (no
\* subcommand name, no flag token), path is buildCommandPath of the executed
\* command and flags is collectFlags of that command.
C13_EventFields ==
    \A i \in 1..Len(events) :
        /\ events[i].path = buildCommandPath(tree, cmd)
        /\ events[i].flags = collectFlags(flags)
        /\ events[i].args = SelectSeq(args, LAMBDA a : a \notin HelpTokens)
        /\ \A j \in 1..Len(events[i].args) :
              /\ ~IsFlagToken(events[i].args[j])
              /\ events[i].args[j] \notin {tree[n].Use : n \in DOMAIN tree}

\* The pre-run hook has run for the executing command and its start time is
\* in the command's context.
Started == cmd # NoCmd /\ preRunAt # NoTime /\ tree[cmd].ctx # NoTime

\* C14 as stated: a success report or a failure report reaches the
\* dispatcher only for an invocation whose pre-run hook has already run and
\* recorded a start time.
C14_ReportOnlyAfterStart == \A i \in 1..Len(calls) : Started

\* C14, amended: a success report is made only after the pre-run hook ran
\* and recorded a start time; a failure report is made for every error
\* Execute returns, after the pre-run hook or, for an error cobra raises
\* while resolving the command line, before any hook ran; an invocation gets
\* at most one report, and its kind (success from the post-run hook, failure
\* from main) never changes.
C14_Lifecycle ==
    /\ Len(calls) <= 1
    /\ \A i \in 1..Len(calls) :
          /\ calls[i].success <=> calls[i].site = "postrun"
          /\ calls[i].success => Started
          /\ ~calls[i].success =>
                /\ cmdErr # "nil"
                /\ (Started <=> inv.parseErr = "nil")

\* A failure was reported for a command line cobra rejected before the
\* pre-run hook ran.
C14_Witness ==
    /\ Len(calls) = 1
    /\ ~calls[1].success
    /\ ~Started
    /\ cmdErr = "unknown command"
    /\ pc = "select"

\* C15: on every success path the pre-run hook ran before the post-run hook,
\* the start time the dispatcher reads from the command's context is the
\* value the pre-run hook stored, and the reported duration is the time of
\* the post-run hook minus the time of the pre-run hook.
C15_DurationFromPreRun ==
    \A i \in 1..Len(calls) :
        calls[i].site = "postrun" =>
            /\ preRunAt # NoTime
            /\ tree[cmd].ctx = preRunAt
            /\ i <= Len(events) =>
                  /\ waitStart >= preRunAt
                  /\ events[i].duration = waitStart - preRunAt

\* A command that started late and ran for the longest time reported that
\* time as its duration.
C15_Witness ==
    /\ Len(events) = 1
    /\ events[1].success
    /\ preRunAt = MaxStartDelay
    /\ events[1].duration = MaxRunTime

\* ------------------------------------- the success hook without a start time

\* The post-run hook is about to run for a command that succeeded, and no
\* start time is in the command's context: the case the !ok branch of
\* trackCommandAndWait is written for.
NoStartInit ==
    /\ version \in Versions
    /\ tree = ProgramTree
    /\ inv \in {i \in Invocations : i.parseErr = "nil" /\ ~i.help}
    /\ cmd = Find(tree, inv.argv)
    /\ args = Positional(tree, inv.argv)
    /\ flags = ParseFlags(DeclaredFlags(cmd), inv.set)
    /\ now \in 0..MaxRunTime
    /\ pc = "postrun"
    /\ cmdErr = "nil"
    /\ postRunRet = "nil"
    /\ calls = <<>>
    /\ events = <<>>
    /\ tx = "none"
    /\ wg = 0
    /\ done = FALSE
    /\ waitStart = NoTime
    /\ returns = <<>>
    /\ stderr = <<>>
    /\ exitStatus = NoStatus
    /\ preRunAt = NoTime
    /\ probe = NoProbe

NoStartNext ==
    \/ PersistentPostRunE
    \/ Tick
    \/ TxComplete
    \/ TxFail
    \/ WaiterClose
    \/ SelectDone
    \/ SelectTimeout
    \/ PostRunReturn
    \/ MainReturn

NoStartSpec ==
    NoStartInit /\ [][NoStartNext]_vars /\ WF_vars(MainFlow) /\ WF_vars(WaiterClose)

\* C16: when the success hook runs and no start time was recorded, the
\* dispatcher takes the current time as the start: the event has success =
\* true and duration zero, the hook returns nil, nothing is written to
\* stderr, and the command ends with exit status 0.
C16_NoStartFallback ==
    /\ [](\A i \in 1..Len(events) :
              events[i].success /\ events[i].duration = 0 /\ events[i].err = "nil")
    /\ [](postRunRet = "nil" /\ cmdErr = "nil" /\ stderr = <<>>)
    /\ [](pc = "exited" => exitStatus = 0)
    /\ <>(pc = "exited" /\ exitStatus = 0 /\ Len(calls) = 1)

\* The hook ran at a time other than zero with no start recorded, reported
\* duration zero, and the process ended with status 0.
C16_Witness ==
    /\ tree[cmd].ctx = NoTime
    /\ pc = "exited"
    /\ exitStatus = 0
    /\ Len(events) = 1
    /\ events[1].success
    /\ events[1].duration = 0
    /\ waitStart = MaxRunTime

\* C17: every call that is not suppressed starts exactly one transmission,
\* and an invocation has at most one attempt: once the transmission has
\* ended or the dispatcher has returned, no event is handed over and no
\* transmission is started again.
C17_OneAttempt ==
    /\ [](version # Dev => Len(events) = Len(calls))
    /\ [](Len(events) <= 1 /\ wg \in {0, 1} /\ (tx = "none" <=> events = <<>>))
    /\ [][(tx \in {"completed", "failed"} \/ Len(returns) > 0) =>
             /\ events' = events
             /\ tx' = "inflight" => tx = "inflight"]_vars

\* The one transmission failed, the dispatcher returned, and the process
\* ended with still one attempt made.
C17_Witness ==
    /\ pc = "exited"
    /\ tx = "failed"
    /\ Len(events) = 1
    /\ Len(calls) = 1

\* C18: when the ceiling elapses first the dispatcher sends no cancellation:
\* its return leaves the transmission as it was, a transmission in flight
\* stays in flight, and until the process exits it can still complete or
\* fail.
C18_NoCancel ==
    /\ [][Len(returns') > Len(returns) => (tx' = tx /\ wg' = wg)]_vars
    /\ [](tx \in {"none", "inflight", "completed", "failed"})
    /\ []((Len(returns) > 0 /\ tx = "inflight" /\ pc # "exited") =>
             (ENABLED TxComplete /\ ENABLED TxFail))

\* The transmission was in flight when the dispatcher returned on the timer
\* and completed afterwards, before the process exited.
C18_Witness ==
    /\ Len(returns) = 1
    /\ LastReturn.by = "timeout"
    /\ LastReturn.tx = "inflight"
    /\ tx = "completed"
    /\ pc # "exited"

\* C19: a call that is not suppressed returns only on the completion signal
\* or on the elapsed ceiling: it never returns with the transmission in
\* flight before the ceiling, a return on the signal finds the transmission
\* ended, a return on the timer comes no earlier than the ceiling, and once
\* the signal is there the call can return at once, whatever the timer.
C19_ReturnCause ==
    /\ \A i \in 1..Len(returns) :
          /\ returns[i].by # "suppressed" =>
                ~(returns[i].tx = "inflight" /\ returns[i].time - waitStart < Ceiling)
          /\ returns[i].by = "done" => returns[i].tx \in {"completed", "failed"}
          /\ returns[i].by = "timeout" => returns[i].time - waitStart >= Ceiling
    /\ (pc = "select" /\ done) => ENABLED SelectDone

\* The signal arrived before the ceiling and the call returned on it at once.
C19_Witness ==
    /\ Len(returns) = 1
    /\ LastReturn.by = "done"
    /\ LastReturn.time - waitStart < Ceiling - MaxRunTime
    /\ LastReturn.tx = "completed"

\* C20 as stated: after the tree is built no hook and no dispatcher step
\* changes a command node: every node is as init() built it for the rest of
\* the run.
C20_TreeUnchanged == tree = ProgramTree

\* C20, amended: after the tree is built no hook and no dispatcher step
\* changes the shape of the tree (the nodes, their Use strings and parents);
\* the one write to a node is the pre-run hook's cmd.SetContext, which puts
\* the start time into the context of the executing command, once, and no
\* later step changes any node.
C20_OnlyContextWritten ==
    /\ [](/\ DOMAIN tree = DOMAIN ProgramTree
          /\ \A n \in DOMAIN tree :
                /\ tree[n].Use = ProgramTree[n].Use
                /\ tree[n].parent = ProgramTree[n].parent
                /\ tree[n].ctx # NoTime => (n = cmd /\ tree[n].ctx = preRunAt))
    /\ [][tree' # tree => (pc = "prerun" /\ pc' = "run")]_vars

\* The run of `docker up` ended with the start time still in that command's
\* context and every other node as it was built.
C20_Witness ==
    /\ pc = "exited"
    /\ cmd = 4
    /\ tree[cmd].ctx = MaxStartDelay
    /\ tree # ProgramTree
    /\ Len(calls) = 1

====
